---- MODULE Spec2Model ----
(***************************************************************************)
(* Model of the betradefi-solana on-chain program                          *)
(* (programs/betradefi-solana/src/lib.rs): the declared program id, the    *)
(* empty Initialize account set, and the initialize instruction handler.   *)
(*                                                                         *)
(* Texts are sequences of one-character strings, so that the formatting of *)
(* a key ({:?} of a Pubkey prints its base58 form) and the parsing of the  *)
(* declared id (declare_id! decodes a base58 literal into 32 bytes) are    *)
(* computed, not assumed.                                                  *)
(***************************************************************************)
EXTENDS Integers, Sequences, FiniteSets, TLC

\* ------------------------------------------------------------------ bounds

\* Number of invocations of initialize in one behaviour.
MaxCalls == 2

\* Number of distinct contents (balance and data) an existing account may have.
MaxAccountState == 2

\* Largest number of accounts an instruction supplies.
MaxSupplied == 1

\* Largest number of instruction-data bytes after the discriminator.
MaxData == 1

\* ------------------------------------------------------ keys and base58

\* A Pubkey is 32 bytes.
PUBKEY_BYTES == 32

\* The base58 alphabet (Bitcoin's), digit value i-1 at position i.
Alphabet ==
    << "1", "2", "3", "4", "5", "6", "7", "8", "9", "A", "B", "C", "D", "E",
       "F", "G", "H", "J", "K", "L", "M", "N", "P", "Q", "R", "S", "T", "U",
       "V", "W", "X", "Y", "Z", "a", "b", "c", "d", "e", "f", "g", "h", "i",
       "j", "k", "m", "n", "o", "p", "q", "r", "s", "t", "u", "v", "w", "x",
       "y", "z" >>

\* The literal given to declare_id!.
DeclaredIdText ==
    << "8", "P", "8", "E", "8", "6", "D", "u", "9", "K", "1", "u", "o", "5",
       "C", "S", "e", "U", "1", "M", "k", "m", "R", "b", "E", "q", "D", "K",
       "v", "f", "W", "t", "w", "W", "d", "G", "i", "j", "R", "Z", "A", "u",
       "z", "f" >>

\* The literal text of the msg! format string before its {:?} placeholder.
GreetingPrefix ==
    << "G", "r", "e", "e", "t", "i", "n", "g", "s", " ", "f", "r", "o", "m",
       ":", " " >>

ZeroBytes == [i \in 1..PUBKEY_BYTES |-> 0]

DigitValue(c) == (CHOOSE i \in 1..Len(Alphabet) : Alphabet[i] = c) - 1

\* bytes (big-endian) * 58 + carry, from the least significant byte up.
RECURSIVE MulAdd(_, _, _)
MulAdd(bytes, i, carry) ==
    IF i = 0
    THEN [bytes |-> bytes, carry |-> carry]
    ELSE LET v == bytes[i] * Len(Alphabet) + carry
         IN  MulAdd([bytes EXCEPT ![i] = v % 256], i - 1, v \div 256)

\* bytes (big-endian) divided by 58, from the most significant byte down.
RECURSIVE DivMod(_, _, _)
DivMod(bytes, i, rem) ==
    IF i > Len(bytes)
    THEN [bytes |-> bytes, rem |-> rem]
    ELSE LET v == rem * 256 + bytes[i]
         IN  DivMod([bytes EXCEPT ![i] = v \div Len(Alphabet)], i + 1,
                    v % Len(Alphabet))

\* Number of leading elements of s equal to x.
RECURSIVE LeadingCount(_, _)
LeadingCount(s, x) ==
    IF s = << >> \/ Head(s) # x THEN 0 ELSE 1 + LeadingCount(Tail(s), x)

\* The digits text[k..] accumulated into bytes; decoding stops with an error as
\* soon as the value no longer fits the key's 32 bytes.
RECURSIVE DecodeDigits(_, _, _)
DecodeDigits(text, k, bytes) ==
    IF k > Len(text)
    THEN [ok |-> TRUE, bytes |-> bytes]
    ELSE LET r == MulAdd(bytes, PUBKEY_BYTES, DigitValue(text[k]))
         IN  IF r.carry # 0
             THEN [ok |-> FALSE, bytes |-> ZeroBytes]
             ELSE DecodeDigits(text, k + 1, r.bytes)

\* Base58 text to a 32-byte key: every character is a digit of the alphabet,
\* the value fits 32 bytes, and each leading "1" stands for one leading zero
\* byte (so the decoded length is exactly 32).
FromBase58(text) ==
    IF \E k \in 1..Len(text) : \A i \in 1..Len(Alphabet) : Alphabet[i] # text[k]
    THEN [ok |-> FALSE, bytes |-> ZeroBytes]
    ELSE LET r == DecodeDigits(text, 1, ZeroBytes)
         IN  [ok    |-> r.ok /\ LeadingCount(text, Alphabet[1])
                                  = LeadingCount(r.bytes, 0),
              bytes |-> r.bytes]

RECURSIVE EncodeDigits(_)
EncodeDigits(bytes) ==
    IF \A i \in 1..Len(bytes) : bytes[i] = 0
    THEN << >>
    ELSE LET r == DivMod(bytes, 1, 0)
         IN  Append(EncodeDigits(r.bytes), Alphabet[r.rem + 1])

\* A key's base58 text: one "1" per leading zero byte, then the digits of the
\* rest, most significant first.
ToBase58(bytes) ==
    [i \in 1..LeadingCount(bytes, 0) |-> Alphabet[1]] \o EncodeDigits(bytes)

\* declare_id!: the program's own id, the key the literal decodes to.
ID == FromBase58(DeclaredIdText).bytes

\* t occurs in s as a contiguous run of characters.
Contains(s, t) ==
    \E i \in 0..(Len(s) - Len(t)) : SubSeq(s, i + 1, i + Len(t)) = t

\* --------------------------------------------------------- the program

\* Variant: an account set that declares one account.
InitializeFieldsOnePayer == << "payer" >>

\* The fields of the Initialize account set: none.
InitializeFields == << >>

\* The instruction arguments of initialize after its context: none.
InitializeArgs == << >>

\* Keys of the accounts of the ledger.
AccountKeys == {"acct"}

\* The ids a caller may build a context with: the declared one, the all-zero
\* key, and the declared one with its last byte changed.
ProgramIds ==
    {ID, ZeroBytes, [ID EXCEPT ![PUBKEY_BYTES] = (@ + 1) % 256]}

\* The base58 text of each id of the model, computed once.
KeyText == [k \in ProgramIds |-> ToBase58(k)]

\* {:?} of a Pubkey writes its base58 text.
DebugPubkey(key) == IF key \in DOMAIN KeyText THEN KeyText[key] ELSE ToBase58(key)

\* The ledger: each account's state, 0 when the account does not exist and
\* otherwise one of its possible contents (balance and data).
LedgerStates == [AccountKeys -> 0..MaxAccountState]

RECURSIVE SeqsUpTo(_, _)
SeqsUpTo(S, n) ==
    IF n = 0
    THEN {<< >>}
    ELSE LET shorter == SeqsUpTo(S, n - 1)
         IN  shorter \cup {Append(q, x) : q \in shorter, x \in S}

VARIABLES
    accounts,   \* the ledger: persistent account state
    initial,    \* the ledger of the initial state (history)
    log,        \* the program log: the lines emitted so far
    results,    \* the result of each finished invocation, in order
    calls,      \* each invocation's program id and the ledger it ran on (history)
    request,    \* << >> or <<the instruction being processed>>
    ctx,        \* << >> or <<the Context<Initialize> handed to the handler>>
    pc          \* "idle", "invoked", "completed" or "rejected"

vars == <<accounts, initial, log, results, calls, request, ctx, pc>>

\* Initialize::try_accounts: one supplied account is taken per field of the
\* account set, the rest stay as remaining accounts; with fewer supplied
\* accounts than fields the instruction is refused.
InitializeTryAccounts(supplied) ==
    IF Len(supplied) < Len(InitializeFields)
    THEN [ok |-> FALSE, err |-> "NotEnoughAccountKeys",
          accounts |-> << >>, remaining |-> << >>]
    ELSE [ok |-> TRUE, err |-> "Ok",
          accounts  |-> SubSeq(supplied, 1, Len(InitializeFields)),
          remaining |-> SubSeq(supplied, Len(InitializeFields) + 1,
                               Len(supplied))]

\* The instruction's arguments are read from its data, one byte per argument
\* here; data left over is not read.
InitializeTryArgs(data) ==
    IF Len(data) < Len(InitializeArgs)
    THEN [ok |-> FALSE, err |-> "InstructionDidNotDeserialize", args |-> << >>]
    ELSE [ok |-> TRUE, err |-> "Ok",
          args |-> SubSeq(data, 1, Len(InitializeArgs))]

\* Variant: the format string without its placeholder.
GreetingLineNoId(c) == GreetingPrefix

\* Variant: the line formats the declared id, not the context's.
GreetingLineDeclaredId(c) == GreetingPrefix \o DebugPubkey(ID)

\* The line msg! emits: the format string's text, then {:?} of ctx.program_id.
GreetingLine(c) == GreetingPrefix \o DebugPubkey(c.program_id)

\* Variant: the handler requires the context's id to be the declared one.
InitializeHandlerChecksId(c, ledger, lg) ==
    IF c.program_id = ID
    THEN [result |-> "Ok", log |-> Append(lg, GreetingLine(c)), accounts |-> ledger]
    ELSE [result |-> "DeclaredProgramIdMismatch", log |-> lg, accounts |-> ledger]

\* Variant: the handler creates the accounts that do not exist yet.
InitializeHandlerWritesAccount(c, ledger, lg) ==
    [result   |-> "Ok",
     log      |-> Append(lg, GreetingLine(c)),
     accounts |-> [k \in AccountKeys |-> IF ledger[k] = 0 THEN 1 ELSE ledger[k]]]

\* Variant: the handler marks an account on its first run and refuses to run
\* again once the mark is there.
InitializeHandlerOnce(c, ledger, lg) ==
    IF \A k \in AccountKeys : ledger[k] > 0
    THEN [result |-> "AccountAlreadyInitialized", log |-> lg, accounts |-> ledger]
    ELSE [result   |-> "Ok",
          log      |-> Append(lg, GreetingLine(c)),
          accounts |-> [k \in AccountKeys |-> IF ledger[k] = 0 THEN 1 ELSE ledger[k]]]

\* Variant: the handler logs the greeting twice.
InitializeHandlerTwoLines(c, ledger, lg) ==
    [result   |-> "Ok",
     log      |-> Append(Append(lg, GreetingLine(c)), GreetingLine(c)),
     accounts |-> ledger]

\* Variant: the handler reads the ledger and fails on an empty one.
InitializeHandlerReadsLedger(c, ledger, lg) ==
    IF \A k \in AccountKeys : ledger[k] = 0
    THEN [result |-> "AccountNotInitialized", log |-> lg, accounts |-> ledger]
    ELSE [result |-> "Ok", log |-> Append(lg, GreetingLine(c)), accounts |-> ledger]

\* The body of initialize on context c, ledger ledger and log lg: one msg!,
\* then Ok(()).  It reads c.program_id only and writes no account.
InitializeHandler(c, ledger, lg) ==
    [result   |-> "Ok",
     log      |-> Append(lg, GreetingLine(c)),
     accounts |-> ledger]

Init ==
    /\ accounts \in LedgerStates
    /\ initial = accounts
    /\ log = << >>
    /\ results = << >>
    /\ calls = << >>
    /\ request = << >>
    /\ ctx = << >>
    /\ pc = "idle"

\* A caller issues the instruction: the supplied accounts are matched against
\* the Initialize account set and the data against the handler's arguments;
\* on success the context is built and the handler is entered.
Invoke(pid, supplied, data) ==
    /\ pc # "invoked"
    /\ Len(calls) < MaxCalls
    /\ request' = << [program_id |-> pid, accounts |-> supplied, data |-> data] >>
    /\ calls' = Append(calls, [program_id |-> pid, ledger |-> accounts])
    /\ LET a == InitializeTryAccounts(supplied)
           d == InitializeTryArgs(data)
       IN  IF a.ok /\ d.ok
           THEN /\ ctx' = << [program_id |-> pid, accounts |-> a.accounts,
                              remaining_accounts |-> a.remaining] >>
                /\ pc' = "invoked"
                /\ results' = results
           ELSE /\ ctx' = << >>
                /\ pc' = "rejected"
                /\ results' = Append(results, IF a.ok THEN d.err ELSE a.err)
    /\ UNCHANGED <<accounts, initial, log>>

\* Variant: the handler waits and never returns.
initialize_spins ==
    /\ pc = "invoked"
    /\ UNCHANGED vars

\* The handler runs to its return; the context, moved into it, is dropped.
initialize ==
    /\ pc = "invoked"
    /\ LET out == InitializeHandler(ctx[1], accounts, log)
       IN  /\ log' = out.log
           /\ results' = Append(results, out.result)
           /\ accounts' = out.accounts
    /\ ctx' = << >>
    /\ pc' = "completed"
    /\ UNCHANGED <<initial, calls, request>>

\* Between invocations another program's transaction creates, changes or
\* closes an account.
OtherTransaction ==
    /\ pc # "invoked"
    /\ \E k \in AccountKeys, v \in 0..MaxAccountState :
          /\ accounts[k] # v
          /\ accounts' = [accounts EXCEPT ![k] = v]
    /\ UNCHANGED <<initial, log, results, calls, request, ctx, pc>>

InvokeAny ==
    \E pid \in ProgramIds,
       supplied \in SeqsUpTo(AccountKeys, MaxSupplied),
       data \in SeqsUpTo({0}, MaxData) :
        Invoke(pid, supplied, data)

Next == InvokeAny \/ initialize

\* The program alone: a sequence of invocations of initialize.
Spec == Init /\ [][Next]_vars

\* The same, with the handler's code running once it is entered.
FairSpec == Spec /\ WF_vars(initialize)

NextEnv == InvokeAny \/ initialize \/ OtherTransaction

\* The program on a ledger other transactions change between invocations.
SpecEnv == Init /\ [][NextEnv]_vars

TypeOK ==
    /\ accounts \in LedgerStates
    /\ pc \in {"idle", "invoked", "completed", "rejected"}
    /\ Len(calls) <= MaxCalls
    /\ Len(results) <= Len(calls)
    /\ (pc = "invoked") = (ctx # << >>)

\* ------------------------------------------------------------ properties

\* The context of a call supplying no accounts.
CtxOf(call) ==
    [program_id |-> call.program_id, accounts |-> << >>,
     remaining_accounts |-> << >>]

\* The step in which the handler runs.
HandlerStep == pc = "invoked" /\ pc' # "invoked"

\* C1: every invocation that has finished returned success, whatever program
\* id its context carried and whatever invocations came before it: no
\* invocation is refused and no result is an error.
C1_AlwaysSucceeds ==
    /\ pc # "rejected"
    /\ pc # "invoked" => Len(results) = Len(calls)
    /\ \A i \in DOMAIN results : results[i] = "Ok"

\* C1 witness: a second invocation, with no accounts, under a program id other
\* than the declared one, has returned Ok.
C1_Witness ==
    /\ pc = "completed"
    /\ Len(calls) = 2
    /\ Len(results) = 2
    /\ calls[2].program_id # ID
    /\ request[1].accounts = << >>
    /\ results[2] = "Ok"

\* C2: the step of the handler leaves the ledger, and everything else that
\* outlives the call, unchanged; the log alone grows, by one line at its end.
C2_OnlyTheLogChanges ==
    [][HandlerStep =>
          /\ accounts' = accounts
          /\ initial' = initial
          /\ calls' = calls
          /\ request' = request
          /\ Len(log') = Len(log) + 1
          /\ SubSeq(log', 1, Len(log)) = log]_vars

\* C2 witness: the handler has run on a ledger holding an account, which is as
\* it was, and the log holds its line.
C2_Witness ==
    /\ pc = "completed"
    /\ Len(log) = 1
    /\ \E k \in AccountKeys : accounts[k] > 0 /\ accounts[k] = initial[k]

C4_IndependentSuccesses ==
    /\ pc # "invoked" => Len(results) = Len(calls)
    /\ accounts = initial
    /\ \A k \in DOMAIN results :
          LET alone == InitializeHandler(CtxOf(calls[k]), initial, << >>)
          IN  /\ results[k] = "Ok"
              /\ alone.result = results[k]
              /\ alone.log = << log[k] >>
              /\ alone.accounts = initial

\* C4 witness: the bound's number of invocations has completed, on a ledger
\* that is not empty.
C4_Witness ==
    /\ pc = "completed"
    /\ Len(results) = MaxCalls
    /\ \E k \in AccountKeys : initial[k] > 0

C6_SameIdSameOutcome ==
    /\ Len(log) = Len(results)
    /\ \A i, j \in DOMAIN results :
          calls[i].program_id = calls[j].program_id =>
              /\ results[i] = results[j]
              /\ log[i] = log[j]

\* C6 witness: two finished invocations carried the same program id and ran on
\* different ledgers.
C6_Witness ==
    \E i, j \in DOMAIN results :
        /\ i # j
        /\ calls[i].program_id = calls[j].program_id
        /\ calls[i].ledger # calls[j].ledger

\* C7: an instruction supplying no accounts and no data is not refused, and the
\* handler is entered with a context whose account set is empty (every
\* supplied account is left among the remaining accounts) and with no argument
\* read from the data.
C7_EmptyContextAccepted ==
    /\ (request # << >> /\ request[1].accounts = << >> /\ request[1].data = << >>)
          => pc # "rejected"
    /\ pc = "invoked" =>
          /\ ctx[1].accounts = << >>
          /\ ctx[1].remaining_accounts = request[1].accounts
          /\ InitializeTryArgs(request[1].data).args = << >>

\* C7 witness: the handler has been entered by an instruction with no accounts
\* and no data.
C7_Witness ==
    /\ pc = "invoked"
    /\ request[1].accounts = << >>
    /\ request[1].data = << >>

\* C8: from the state in which it is entered the handler has one step, to its
\* completion, and takes it: every invocation entered completes, with Ok.
C8_Terminates ==
    /\ [][pc = "invoked" => (pc' = "completed" /\ results' = Append(results, "Ok"))]_vars
    /\ (pc = "invoked") ~> (pc = "completed")

\* C8 witness: an invocation has completed with Ok.
C8_Witness ==
    /\ pc = "completed"
    /\ results # << >>
    /\ results[Len(results)] = "Ok"
    /\ Len(log) = Len(results)

\* C9: the line the handler appends is the prefix "Greetings from: " followed
\* by the base58 text of the program id of the context it was given, and that
\* line is the prefix followed by the declared text exactly when the context
\* carries the declared id.
C9_LineIsContextId ==
    [][HandlerStep =>
          /\ log' = Append(log, GreetingPrefix \o ToBase58(ctx[1].program_id))
          /\ (log'[Len(log')] = GreetingPrefix \o DeclaredIdText)
                <=> (ctx[1].program_id = ID)]_vars

\* C9 witness: the log holds the line of a context carrying the declared id,
\* which ends with the declared text, and the line of a context carrying
\* another id, which does not.
C9_Witness ==
    \E i, j \in DOMAIN log :
        /\ calls[i].program_id = ID
        /\ log[i] = GreetingPrefix \o DeclaredIdText
        /\ calls[j].program_id # ID
        /\ log[j] # GreetingPrefix \o DeclaredIdText

====
